---- MODULE Spec2Model ----
(***************************************************************************)
(* Model of the crate `wilson` (src/src/lib.rs): the function              *)
(*   wilson(successes, trials, z) -> WilsonResult { low, high }            *)
(* built with the Cargo feature "f32", i.e. FP = f32.                      *)
(*                                                                         *)
(* FP values are modelled bit-exactly as IEEE-754 binary32 numbers:        *)
(* 24-bit significands, exponents of the least significant bit from -149   *)
(* to 104, subnormals, signed zeros, infinities and NaN, and every         *)
(* operation (+, -, *, /, sqrt) rounds to nearest, ties to even.           *)
(***************************************************************************)
EXTENDS Integers, Sequences, FiniteSets, TLC

\* Number of significand bits of FP = f32 (hidden bit included).
MantBits == 24

\* Exponent of the least significant bit of the smallest subnormal f32.
EMin == 0 - 149

\* Largest exponent of the least significant bit of a finite f32.
EMax == 104

Max(a, b) == IF a >= b THEN a ELSE b

RECURSIVE BitLen(_)
\* Number of bits of the natural number n (0 for n = 0).
BitLen(n) == IF n = 0 THEN 0 ELSE 1 + BitLen(n \div 2)

(***************************************************************************)
(* FP values.  A finite value is (-1)^s * m * 2^e in canonical form:       *)
(* zero has m = 0, e = EMin; a subnormal has m < 2^23, e = EMin; a normal  *)
(* number has 2^23 <= m < 2^24 and EMin <= e <= EMax.                      *)
(***************************************************************************)
Fin(s, m, e) == [k |-> "fin", s |-> s, m |-> m, e |-> e]
Inf(s) == [k |-> "inf", s |-> s, m |-> 0, e |-> 0]
NaN == [k |-> "nan", s |-> 0, m |-> 0, e |-> 0]
Zero == Fin(0, 0, EMin)
SZero(s) == Fin(s, 0, EMin)

IsNaN(x) == x.k = "nan"
IsInf(x) == x.k = "inf"
IsFinite(x) == x.k = "fin"
IsZero(x) == x.k = "fin" /\ x.m = 0
Xor(a, b) == IF a = b THEN 0 ELSE 1

\* Round (-1)^s * (M + f) * 2^E to the nearest f32, ties to even, where M is
\* a natural number and 0 < f < 1 when sticky = 1, f = 0 when sticky = 0.
\* With sticky = 1 the callers pass an M of at least 26 bits.
Round(s, M, E, sticky) ==
    IF M = 0 THEN SZero(s)
    ELSE
      LET nb == BitLen(M)
          el == Max(E + nb - MantBits, EMin)
          sh == el - E
      IN  IF sh <= 0 THEN
            IF el > EMax THEN Inf(s) ELSE Fin(s, M * 2^(0 - sh), el)
          ELSE IF sh > nb THEN SZero(s)
          ELSE
            LET q == M \div 2^sh
                r == M % 2^sh
                half == 2^(sh - 1)
                up == \/ r > half
                      \/ r = half /\ sticky = 1
                      \/ r = half /\ sticky = 0 /\ q % 2 = 1
                q1 == IF up THEN q + 1 ELSE q
                m2 == IF q1 = 2^MantBits THEN 2^(MantBits - 1) ELSE q1
                e2 == IF q1 = 2^MantBits THEN el + 1 ELSE el
            IN  IF e2 > EMax THEN Inf(s)
                ELSE IF m2 = 0 THEN SZero(s)
                ELSE Fin(s, m2, e2)

\* An integer literal as FP (|i| < 2^31).
FromInt(i) == IF i < 0 THEN Round(1, 0 - i, 0, 0) ELSE Round(0, i, 0, 0)

Neg(x) == IF IsNaN(x) THEN NaN ELSE [x EXCEPT !.s = 1 - x.s]
Abs(x) == IF IsNaN(x) THEN NaN ELSE [x EXCEPT !.s = 0]

\* |x| < |y| for finite canonical x, y.
MagLt(x, y) == x.e < y.e \/ (x.e = y.e /\ x.m < y.m)

\* x < y, as the FP comparison: false when either side is NaN, -0 = +0.
Lt(x, y) ==
    IF IsNaN(x) \/ IsNaN(y) THEN FALSE
    ELSE IF IsInf(x) THEN x.s = 1 /\ ~(IsInf(y) /\ y.s = 1)
    ELSE IF IsInf(y) THEN y.s = 0
    ELSE IF IsZero(x) /\ IsZero(y) THEN FALSE
    ELSE IF x.s # y.s THEN x.s = 1
    ELSE IF x.s = 0 THEN MagLt(x, y)
    ELSE MagLt(y, x)

\* x == y, as the FP comparison.
Eq(x, y) ==
    IF IsNaN(x) \/ IsNaN(y) THEN FALSE
    ELSE IF IsZero(x) /\ IsZero(y) THEN TRUE
    ELSE x = y

\* x <= y, as the FP comparison.
Le(x, y) == Lt(x, y) \/ Eq(x, y)

(***************************************************************************)
(* Arithmetic of FP: the operators +, -, *, / of f32 and f32::sqrt.        *)
(***************************************************************************)

\* x + y for finite nonzero x, y whose least-significant-bit exponents
\* satisfy x.e >= y.e.  Close exponents are added exactly; otherwise x gets
\* three guard bits and y is shifted right with a sticky bit.
AddAligned(x, y) ==
    LET diff == x.e - y.e
        same == x.s = y.s
    IN  IF diff <= 6 THEN
          LET a == x.m * 2^diff
              sum == IF same THEN a + y.m ELSE a - y.m
          IN  IF sum = 0 THEN Zero
              ELSE IF sum > 0 THEN Round(x.s, sum, y.e, 0)
              ELSE Round(y.s, 0 - sum, y.e, 0)
        ELSE
          LET a == x.m * 8
              big == diff - 3 > MantBits
              yq == IF big THEN 0 ELSE y.m \div 2^(diff - 3)
              yr == IF big THEN 1 ELSE y.m % 2^(diff - 3)
              st == IF yr = 0 THEN 0 ELSE 1
              sum == IF same THEN a + yq ELSE a - yq - st
          IN  Round(x.s, sum, x.e - 3, st)

Add(x, y) ==
    IF IsNaN(x) \/ IsNaN(y) THEN NaN
    ELSE IF IsInf(x) THEN (IF IsInf(y) /\ y.s # x.s THEN NaN ELSE x)
    ELSE IF IsInf(y) THEN y
    ELSE IF IsZero(x) /\ IsZero(y) THEN (IF x.s = 1 /\ y.s = 1 THEN SZero(1) ELSE Zero)
    ELSE IF IsZero(x) THEN y
    ELSE IF IsZero(y) THEN x
    ELSE IF x.e >= y.e THEN AddAligned(x, y)
    ELSE AddAligned(y, x)

Sub(x, y) == Add(x, Neg(y))

\* x * y.  The 48-bit product of the significands is formed from 12-bit
\* halves as hi * 2^24 + lo and cut to 30 bits plus a sticky bit.
Mul(x, y) ==
    IF IsNaN(x) \/ IsNaN(y) THEN NaN
    ELSE IF IsInf(x) \/ IsInf(y) THEN
      (IF IsZero(x) \/ IsZero(y) THEN NaN ELSE Inf(Xor(x.s, y.s)))
    ELSE IF IsZero(x) \/ IsZero(y) THEN SZero(Xor(x.s, y.s))
    ELSE
      LET a1 == x.m \div 4096
          a0 == x.m % 4096
          b1 == y.m \div 4096
          b0 == y.m % 4096
          mid == a1 * b0 + a0 * b1
          low == (mid % 4096) * 4096 + a0 * b0
          hi == a1 * b1 + mid \div 4096 + low \div 2^24
          lo == low % 2^24
          sh == BitLen(hi) - 6
          s == Xor(x.s, y.s)
          E == x.e + y.e
      IN  IF sh <= 0 THEN Round(s, hi * 2^24 + lo, E, 0)
          ELSE Round(s, hi * 2^(24 - sh) + lo \div 2^sh,
                     E + sh, IF lo % 2^sh = 0 THEN 0 ELSE 1)

\* One step of the long division by b in base 128: qr = <<quotient, remainder>>.
DivStep(qr, b) == <<qr[1] * 128 + (qr[2] * 128) \div b, (qr[2] * 128) % b>>

\* x / y.  Both significands are normalised to 24 bits and the quotient is
\* developed to 28 fractional bits; the remainder gives the sticky bit.
Div(x, y) ==
    IF IsNaN(x) \/ IsNaN(y) THEN NaN
    ELSE IF IsInf(x) THEN (IF IsInf(y) THEN NaN ELSE Inf(Xor(x.s, y.s)))
    ELSE IF IsInf(y) THEN SZero(Xor(x.s, y.s))
    ELSE IF IsZero(y) THEN (IF IsZero(x) THEN NaN ELSE Inf(Xor(x.s, y.s)))
    ELSE IF IsZero(x) THEN SZero(Xor(x.s, y.s))
    ELSE
      LET la == MantBits - BitLen(x.m)
          lb == MantBits - BitLen(y.m)
          a == x.m * 2^la
          b == y.m * 2^lb
          q0 == <<a \div b, a % b>>
          q4 == DivStep(DivStep(DivStep(DivStep(q0, b), b), b), b)
      IN  Round(Xor(x.s, y.s), q4[1], (x.e - la) - (y.e - lb) - 28,
                IF q4[2] = 0 THEN 0 ELSE 1)

RECURSIVE ISqrt(_, _, _, _)
\* Digit-by-digit square root: the bit pairs of a (pair i = bits 2i+1, 2i)
\* are brought down from i to 0 and then -i zero pairs down to i = -14.
\* Returns <<root, remainder>>.
ISqrt(rem, root, a, i) ==
    IF i < 0 - 14 THEN <<root, rem>>
    ELSE
      LET pair == IF i >= 0 THEN (a \div 4^i) % 4 ELSE 0
          r == rem * 4 + pair
          t == root * 4 + 1
      IN  IF r >= t THEN ISqrt(r - t, root * 2 + 1, a, i - 1)
          ELSE ISqrt(r, root * 2, a, i - 1)

\* f32::sqrt: NaN for a negative argument, correctly rounded otherwise.
Sqrt(x) ==
    IF IsNaN(x) THEN NaN
    ELSE IF IsZero(x) THEN x
    ELSE IF x.s = 1 THEN NaN
    ELSE IF IsInf(x) THEN x
    ELSE
      LET la == MantBits - BitLen(x.m)
          ea == x.e - la
          par == ea % 2
          a == x.m * 2^(la + par)
          rr == ISqrt(0, 0, a, 12)
      IN  Round(0, rr[1], (ea - par) \div 2 - 14, IF rr[2] = 0 THEN 0 ELSE 1)

\* The FP literal n/d for integers n, d (d > 0) that f32 holds exactly:
\* the f32 nearest to the decimal, as rustc parses it.
Lit(n, d) == Div(FromInt(n), FromInt(d))

One == FromInt(1)

(***************************************************************************)
(* pub fn wilson(successes: FP, trials: FP, z: FP) -> WilsonResult         *)
(***************************************************************************)

\* The literal 0.001 of `if trials <= 0.001`.
Threshold == Lit(1, 1000)

\* Fault for C1: the guard written with < in place of <=.
IsDegenerateStrict(trials) == Lt(trials, Threshold)

\* Fault for C7: the guard written with the threshold 0.01.
IsDegenerateLoose(trials) == Le(trials, Lit(1, 100))

\* `trials <= 0.001`: the guard of the early return.
IsDegenerate(trials) == Le(trials, Threshold)

\* WilsonResult { low: 0.0, high: 1.0 }
UnitInterval == [low |-> Zero, high |-> One]

\* Fault for C3: the factor 0.5 of the centre left out.
CalcPNoHalf(s, n, z) ==
    Div(Add(s, Mul(z, z)), Add(n, Mul(z, z)))

\* Fault for C10: 0.5 + z * z written for 0.5 * z * z.
CalcPHalfPlus(s, n, z) ==
    Div(Add(s, Add(Lit(1, 2), Mul(z, z))), Add(n, Mul(z, z)))

\* let p = (s + 0.5 * z * z) / (n + z * z);
CalcP(s, n, z) ==
    Div(Add(s, Mul(Mul(Lit(1, 2), z), z)), Add(n, Mul(z, z)))

\* Fault for C4: s - n written for n - s.
SqrtArgReversed(s, n, z) ==
    Add(Div(Mul(s, Sub(s, n)), n), Div(Mul(z, z), FromInt(4)))

\* Fault for C6: the division by n left out.
SqrtArgNoDiv(s, n, z) ==
    Add(Mul(s, Sub(n, s)), Div(Mul(z, z), FromInt(4)))

\* Fault for C8: z * z / 2.0 written for z * z / 4.0.
SqrtArgHalf(s, n, z) ==
    Add(Div(Mul(s, Sub(n, s)), n), Div(Mul(z, z), FromInt(2)))

\* s * (n - s) / n + z * z / 4.0, the argument of sqrt
SqrtArg(s, n, z) ==
    Add(Div(Mul(s, Sub(n, s)), n), Div(Mul(z, z), FromInt(4)))

\* Fault for C5: the factor z of the half-width left out.
CalcDNoZ(s, n, z) ==
    Mul(Div(One, Add(n, Mul(z, z))), Sqrt(SqrtArg(s, n, z)))

\* Fault for C9: s written for n in the divisor of the half-width.
CalcDWrongVar(s, n, z) ==
    Mul(Div(z, Add(s, Mul(z, z))), Sqrt(SqrtArg(s, n, z)))

\* let d = z / (n + z * z) * (s * (n - s) / n + z * z / 4.0).sqrt();
CalcD(s, n, z) ==
    Mul(Div(z, Add(n, Mul(z, z))), Sqrt(SqrtArg(s, n, z)))

\* Fault for C2: low and high exchanged.
GeneralSwapped(s, n, z) ==
    LET p == CalcP(s, n, z)
        d == CalcD(s, n, z)
    IN  [low |-> Add(p, d), high |-> Sub(p, d)]

\* The general path: low = p - d, high = p + d.
General(s, n, z) ==
    LET p == CalcP(s, n, z)
        d == CalcD(s, n, z)
    IN  [low |-> Sub(p, d), high |-> Add(p, d)]

wilson(successes, trials, z) ==
    IF IsDegenerate(trials) THEN UnitInterval
    ELSE General(successes, trials, z)

(***************************************************************************)
(* Callers.  The first call is made with arguments drawn from small sets   *)
(* of f32 values that hold the arguments of the crate's tests (0, 0.005,   *)
(* 0.01, 0.5, 1, 2, 20, z = 2, 3), the threshold itself and a negative     *)
(* count.  After it returns, the caller may call once more with a larger   *)
(* z, with more trials, or with successes and trials scaled by a common    *)
(* factor, keeping the first call in prev for comparison; the second call  *)
(* may move an argument by one unit in the last place or to a magnitude    *)
(* whose square overflows f32.                                             *)
(***************************************************************************)

\* Largest small integer used as a trial or success count.
MaxCount == 4

\* The f32 2^e, for a normal exponent e.
PowTwo(e) == Fin(0, 2^(MantBits - 1), e - (MantBits - 1))

\* The next f32 above a positive normal x (its significand is not all ones).
NextUp(x) == Fin(x.s, x.m + 1, x.e)

Counts == {FromInt(i) : i \in 1..MaxCount}

TrialsSet ==
    {FromInt(0 - 1), Zero, Threshold, Lit(1, 100), FromInt(20)} \cup Counts

SuccessesSet ==
    {FromInt(0 - 1), Zero, Lit(1, 200), Lit(1, 2), FromInt(20)} \cup Counts

ZSet == {Zero, One, Lit(3, 2), FromInt(2), FromInt(3)}

\* The values z may be raised to: those of ZSet, z = 256 (z*z = 65536), a z
\* so large that trials vanishes in trials + z*z, and a z whose square
\* overflows.
ZRaised == ZSet \cup {FromInt(256), FromInt(8192), PowTwo(64)}

\* The factors of Scale: one unit in the last place above 1, 2, and a
\* factor that makes successes * (trials - successes) overflow.
ScaleSet == {NextUp(One), FromInt(2), PowTwo(100)}

\* The value of `out` before the call has returned.
Pending == [low |-> NaN, high |-> NaN]

VARIABLES
    pc,         \* "call": arguments passed, body not run; "ret": returned
    successes,  \* argument `successes`
    trials,     \* argument `trials`
    z,          \* argument `z`
    out,        \* the WilsonResult returned
    path,       \* which return was taken: "none", "degenerate", "general"
    again,      \* TRUE once the caller has made its second call
    prev        \* arguments and result of the first call, once again = TRUE

vars == <<pc, successes, trials, z, out, path, again, prev>>

Init ==
    /\ pc = "call"
    /\ successes \in SuccessesSet
    /\ trials \in TrialsSet
    /\ z \in ZSet
    /\ out = Pending
    /\ path = "none"
    /\ again = FALSE
    /\ prev = [s |-> Zero, n |-> Zero, z |-> Zero, out |-> Pending]

\* if trials <= 0.001 { return WilsonResult { low: 0.0, high: 1.0 }; }
Degenerate ==
    /\ pc = "call"
    /\ IsDegenerate(trials)
    /\ out' = wilson(successes, trials, z)
    /\ path' = "degenerate"
    /\ pc' = "ret"
    /\ UNCHANGED <<successes, trials, z, again, prev>>

\* The rest of the body: p, d, WilsonResult { low, high }.
Compute ==
    /\ pc = "call"
    /\ ~IsDegenerate(trials)
    /\ out' = wilson(successes, trials, z)
    /\ path' = "general"
    /\ pc' = "ret"
    /\ UNCHANGED <<successes, trials, z, again, prev>>

\* The caller keeps the call that returned and sets up the next one.
Recall(s2, n2, z2) ==
    /\ pc = "ret"
    /\ again = FALSE
    /\ prev' = [s |-> successes, n |-> trials, z |-> z, out |-> out]
    /\ successes' = s2
    /\ trials' = n2
    /\ z' = z2
    /\ out' = Pending
    /\ path' = "none"
    /\ again' = TRUE
    /\ pc' = "call"

\* Second call with a larger z.
RaiseZ ==
    \E z2 \in ZRaised \cup (IF Lt(Zero, z) THEN {NextUp(z)} ELSE {}) :
        Lt(z, z2) /\ Recall(successes, trials, z2)

\* Second call with more trials.
RaiseTrials == \E n2 \in TrialsSet : Lt(trials, n2) /\ Recall(successes, n2, z)

\* Second call with successes and trials multiplied by a common factor.
Scale == \E k \in ScaleSet : Recall(Mul(successes, k), Mul(trials, k), z)

Next == Degenerate \/ Compute \/ RaiseZ \/ RaiseTrials \/ Scale

Spec == Init /\ [][Next]_vars

(***************************************************************************)
(* Vocabulary of the properties.                                           *)
(***************************************************************************)

\* The tolerance of the crate's tests: assert_abs_diff_eq!(.., epsilon = 0.000001).
Eps == Lit(1, 1000000)

\* |a - b| <= epsilon, computed in FP as assert_abs_diff_eq! does.
Near(a, b) == Le(Abs(Sub(a, b)), Eps)

\* 0 <= successes <= trials and z >= 0.
WellFormed(s, n, zz) == Le(Zero, s) /\ Le(s, n) /\ Le(Zero, zz)

\* trials > 0.001
NonDegenerate(n) == Lt(Threshold, n)

\* None of the products and sums of the arguments overflows to infinity.
NoOverflow(s, n, zz) ==
    /\ IsFinite(Mul(zz, zz))
    /\ IsFinite(Add(n, Mul(zz, zz)))
    /\ IsFinite(Mul(s, Sub(n, s)))

\* high - low, computed in FP.
Width(o) == Sub(o.high, o.low)

RECURSIVE OddPart(_)
\* n without its trailing zero bits (n > 0).
OddPart(n) == IF n % 2 = 1 THEN n ELSE OddPart(n \div 2)

\* The FP product x * k is the exact product: nothing is rounded away.
IsExactMul(x, k) ==
    /\ IsFinite(x)
    /\ IsFinite(k)
    /\ \/ IsZero(x)
       \/ IsZero(k)
       \/ LET a == OddPart(x.m)
              b == OddPart(k.m)
              r == Mul(x, k)
          IN  /\ BitLen(a) + BitLen(b) <= MantBits + 1
              /\ a * b < 2^MantBits
              /\ IsFinite(r)
              /\ ~IsZero(r)
              /\ OddPart(r.m) = a * b

\* The call in progress has returned.
Returned == pc = "ret"

\* The returned call had well-formed arguments with trials > 0.001.
CurOK == Returned /\ WellFormed(successes, trials, z) /\ NonDegenerate(trials)

\* The same of the first of two calls.
PrevOK == again /\ WellFormed(prev.s, prev.n, prev.z) /\ NonDegenerate(prev.n)

\* Both calls returned, from well-formed arguments with trials > 0.001.
BothOK == PrevOK /\ CurOK

\* Neither call overflowed.
BothNoOverflow ==
    NoOverflow(prev.s, prev.n, prev.z) /\ NoOverflow(successes, trials, z)

\* The second call differs from the first by a larger or equal z only.
SameButZ == prev.s = successes /\ prev.n = trials /\ Le(prev.z, z)

\* The second call differs from the first by more trials only.
SameButTrials == prev.s = successes /\ prev.z = z /\ Lt(prev.n, trials)

\* The second call is the first with successes and trials scaled exactly by k.
ScaledBy(k) ==
    /\ prev.z = z
    /\ Le(One, k)
    /\ IsExactMul(prev.s, k)
    /\ IsExactMul(prev.n, k)
    /\ successes = Mul(prev.s, k)
    /\ trials = Mul(prev.n, k)

(***************************************************************************)
(* Properties.                                                             *)
(***************************************************************************)

\* C1: whenever trials <= 0.001 (zero, 0.001 itself, a negative count) and
\* z >= 0, whatever successes is, the call returns exactly low = 0.0 and
\* high = 1.0 by the early return, without running the general formula.
C1_DegenerateShortCircuit ==
    (Returned /\ Le(trials, Threshold) /\ Le(Zero, z))
        => (out = UnitInterval /\ path = "degenerate")

\* A call with trials = 0.001 exactly and successes > trials has returned
\* the unit interval by the early return.
C1_Witness ==
    /\ Returned
    /\ trials = Threshold
    /\ Lt(trials, successes)
    /\ path = "degenerate"
    /\ out = UnitInterval

\* C2 as stated: every well-formed call with trials > 0.001 returns
\* 0 <= low <= high <= 1.
C2_RangeExact ==
    CurOK => (Le(Zero, out.low) /\ Le(out.low, out.high) /\ Le(out.high, One))

\* C2 amended: when no intermediate value overflows, every well-formed call
\* with trials > 0.001 returns low <= high exactly, and low >= 0 and
\* high <= 1 up to the tests' tolerance 0.000001.
C2_RangeWithinEps ==
    (CurOK /\ NoOverflow(successes, trials, z))
        => /\ Le(out.low, out.high)
           /\ Le(Neg(Eps), out.low)
           /\ Le(out.high, Add(One, Eps))

\* A well-formed call returned a low that rounding pushed below zero.
C2_Witness ==
    /\ CurOK
    /\ NoOverflow(successes, trials, z)
    /\ Lt(out.low, Zero)
    /\ Lt(out.low, out.high)

C4_AlwaysFinite ==
    (Returned /\ WellFormed(successes, trials, z))
        => /\ IsFinite(out.low) /\ IsFinite(out.high)
           /\ path = "general" =>
                /\ Le(Zero, SqrtArg(successes, trials, z))
                /\ ~IsZero(trials)
                /\ ~IsZero(Add(trials, Mul(z, z)))

\* C4 amended: on the general path of a well-formed call the argument of
\* sqrt is not negative and the divisors are not zero; low and high are
\* finite whenever no intermediate value overflows (and always on the
\* degenerate path).
C4_FiniteUnlessOverflow ==
    (Returned /\ WellFormed(successes, trials, z))
        => /\ path = "general" =>
                /\ Le(Zero, SqrtArg(successes, trials, z))
                /\ ~IsZero(trials)
                /\ ~IsZero(Add(trials, Mul(z, z)))
           /\ (path = "degenerate" \/ NoOverflow(successes, trials, z))
                => (IsFinite(out.low) /\ IsFinite(out.high))

\* The call wilson(0.5, 1.0, z) with z > 0 returned finite bounds from the
\* general path.
C4_Witness ==
    /\ Returned
    /\ path = "general"
    /\ successes = Lit(1, 2)
    /\ trials = One
    /\ Lt(Zero, z)
    /\ IsFinite(out.low)
    /\ IsFinite(out.high)

C6_WidthMonotoneInScaleExact ==
    \A k \in ScaleSet :
        (BothOK /\ ScaledBy(k)) => Le(Width(out), Width(prev.out))

\* C6 amended: when neither call overflows, the width after scaling does
\* not exceed the width before by more than the tolerance 0.000001.
C6_WidthMonotoneInScaleWithinEps ==
    \A k \in ScaleSet :
        (BothOK /\ ScaledBy(k) /\ BothNoOverflow)
            => Le(Width(out), Add(Width(prev.out), Eps))

\* The second call scaled successes and trials, 0 < successes < trials, by
\* one unit in the last place above 1, nothing overflowed, and rounding made
\* the interval wider than the first.
C6_Witness ==
    /\ BothOK
    /\ ScaledBy(NextUp(One))
    /\ BothNoOverflow
    /\ Lt(Zero, prev.s)
    /\ Lt(prev.s, prev.n)
    /\ Lt(Width(prev.out), Width(out))

\* C7 as stated: a well-formed call returns exactly (0, 1) only when
\* trials <= 0.001.
C7_UnitOnlyWhenDegenerateExact ==
    (Returned /\ WellFormed(successes, trials, z)
        /\ Eq(out.low, Zero) /\ Eq(out.high, One))
        => Le(trials, Threshold)

\* C7 amended: every well-formed call with trials > 0.001 takes the general
\* formula, and its result differs from (0, 1) whenever z*z <= 65536 * trials.
C7_UnitOnlyWhenDegenerateOrHugeZ ==
    CurOK
        => /\ path = "general"
           /\ Le(Mul(z, z), Mul(FromInt(65536), trials))
                => ~(Eq(out.low, Zero) /\ Eq(out.high, One))

\* wilson(0.005, 0.01, 2.0) has returned, from the general formula, a result
\* that is not (0, 1).
C7_Witness ==
    /\ Returned
    /\ successes = Lit(1, 200)
    /\ trials = Lit(1, 100)
    /\ z = FromInt(2)
    /\ path = "general"
    /\ Lt(Zero, out.low)
    /\ Lt(out.high, One)

\* The reference values of C8 hold of the result, within the tolerance.
BoundaryValues ==
    LET zz == Mul(z, z)
    IN  /\ IsZero(successes) =>
              /\ Near(out.low, Zero)
              /\ Near(out.high, Div(zz, Add(trials, zz)))
        /\ Eq(successes, trials) =>
              /\ Near(out.high, One)
              /\ Near(out.low, Div(trials, Add(trials, zz)))

\* C8 as stated: for every trials > 0.001 and z >= 0, wilson(0, trials, z)
\* is (0, z*z/(trials + z*z)) and wilson(trials, trials, z) is
\* (trials/(trials + z*z), 1), to within 0.000001.
C8_BoundaryExact ==
    (Returned /\ NonDegenerate(trials) /\ Le(Zero, z)) => BoundaryValues

\* C8 amended: the same, for calls in which no intermediate value overflows.
C8_BoundaryUnlessOverflow ==
    (Returned /\ NonDegenerate(trials) /\ Le(Zero, z)
        /\ NoOverflow(successes, trials, z))
        => BoundaryValues

\* wilson(20, 20, 2) has returned high = 1 and low = 5/6 within the tolerance.
C8_Witness ==
    /\ Returned
    /\ successes = FromInt(20)
    /\ trials = FromInt(20)
    /\ z = FromInt(2)
    /\ Near(out.high, One)
    /\ Near(out.low, Lit(5, 6))

C10_ExactOnlyIfZZero ==
    CurOK
        => /\ (IsZero(successes) /\ Eq(out.low, Zero)) => IsZero(z)
           /\ (Eq(successes, trials) /\ Eq(out.high, One)) => IsZero(z)

\* C10 amended: at successes = 0, low is exactly 0 if z = 0, and at
\* successes = trials, high is exactly 1 if z = 0.
C10_ExactIfZZero ==
    (CurOK /\ IsZero(z))
        => /\ IsZero(successes) => Eq(out.low, Zero)
           /\ Eq(successes, trials) => Eq(out.high, One)

\* A call with z = 0 and successes = trials has returned high = 1 and
\* low = 1 from the general formula.
C10_Witness ==
    /\ CurOK
    /\ IsZero(z)
    /\ Eq(successes, trials)
    /\ path = "general"
    /\ out.high = One
    /\ out.low = One

====
